---------------------------- MODULE Spec2Model ----------------------------
(***************************************************************************)
(* Model of MovingAverageCrossStrategy.py: the strategy (next,            *)
(* notify_order, notify_trade, log) and the run that run_backtest sets up  *)
(* (one data feed, the engine's default broker with 100000 cash and 0.1%  *)
(* commission, market orders).                                             *)
(*                                                                         *)
(* Units.  Money and prices are whole dollars.  Every price of the model   *)
(* is a multiple of 1000, so that the 0.1% commission of any fill is a     *)
(* whole number of dollars and the arithmetic of the run is exact.         *)
(* Floating-point rounding is not modelled.                                *)
(*                                                                         *)
(* Bars are numbered from 1 (bar i of the model is index i-1 of the        *)
(* data feed).  None is <<>> and a present value x is <<x>>.               *)
(***************************************************************************)
EXTENDS Integers, Sequences, FiniteSets

\* ------------------------------------------------------------- bounds
\* Longest price series of a run (number of bars).
MaxBars == 6

\* Prices a bar's open and close are drawn from (dollars, multiples of 1000).
Prices == {30000, 50000, 110000}

\* (short_period, long_period) pairs a run is started with.  The last two
\* are configurations with short_period >= long_period.
ParamChoices == { <<1, 2>>, <<2, 3>>, <<2, 2>>, <<2, 1>> }

\* ------------------------------------------------ program constants
\* cerebro.broker.setcash(100000.0)
InitialCash == 100000
\* cerebro.broker.setcommission(commission=0.001), as parts per thousand
CommissionPerMille == 1
\* size = int(cash * 0.95 / close), the 0.95 as a percentage
SizingPercent == 95
\* params: ('printlog', True)
printlog == TRUE

None == <<>>
Some(x) == <<x>>

VARIABLES
    params,          \* [short_period, long_period] of the strategy
    closes,          \* data.close of the bars delivered so far
    dataopen,        \* data.open[0], the open of the current bar
    cash,            \* broker.cash
    value,           \* broker value (cash + position at the last close)
    position,        \* broker position of the data: [size, price]
    orders,          \* broker.orders: every order ever created
    submitted,       \* broker.submitted: ids awaiting the submission check
    pending,         \* broker.pending: accepted ids awaiting execution
    notifs,          \* order notifications queued for notify_order
    trades,          \* the strategy's trades, the open one last
    tradespending,   \* trade notifications queued for notify_trade
    order,           \* self.order
    buyprice,        \* self.buyprice
    buycomm,         \* self.buycomm
    log,             \* lines printed by log()
    pc               \* where the engine's loop stands

vars == << params, closes, dataopen, cash, value, position, orders, submitted,
           pending, notifs, trades, tradespending, order, buyprice, buycomm,
           log, pc >>

\* ---------------------------------------------------------- helpers
Abs(x) == IF x < 0 THEN -x ELSE x
Max(a, b) == IF a >= b THEN a ELSE b

\* Python int(n / d) for d > 0: truncation toward zero.
IntDiv(n, d) == IF n >= 0 THEN n \div d ELSE -((-n) \div d)

RECURSIVE SumCloses(_, _, _)
SumCloses(c, from, to) ==
    IF from > to THEN 0 ELSE c[to] + SumCloses(c, from, to - 1)

\* ------------------------------------------------------- indicators
\* SimpleMovingAverage(period): defined from bar `period` on.  The average
\* itself is WindowSum / period; the model compares averages by cross
\* multiplication.
WindowSum(c, period, i) == SumCloses(c, i - period + 1, i)

\* First bar at which both averages are defined.
BothDefined(p) == Max(p.short_period, p.long_period)

\* sma_short[i] - sma_long[i], multiplied by short_period * long_period
\* (same sign, same zero).
SmaDiff(c, p, i) ==
    WindowSum(c, p.short_period, i) * p.long_period
        - WindowSum(c, p.long_period, i) * p.short_period

\* CrossOver's NonZeroDifference: the last non-zero difference, seeded with
\* the (possibly zero) difference of the first bar both averages exist.
RECURSIVE NonZeroDifference(_, _, _)
NonZeroDifference(c, p, i) ==
    IF i <= BothDefined(p) THEN SmaDiff(c, p, i)
    ELSE IF SmaDiff(c, p, i) # 0 THEN SmaDiff(c, p, i)
    ELSE NonZeroDifference(c, p, i - 1)

\* The strategy's minimum period: CrossOver reads NonZeroDifference one bar
\* back, so its line has a value from bar BothDefined + 1 on.  Before that
\* the line holds no number (NaN) and the engine calls prenext, not next.
MinPeriod(p) == BothDefined(p) + 1

HasCrossOver(p, i) == i >= MinPeriod(p)

\* The side the short average is on, instead of the bar it changes side.
CrossOver_Level(c, p, i) ==
    IF SmaDiff(c, p, i) > 0 THEN 1 ELSE IF SmaDiff(c, p, i) < 0 THEN -1 ELSE 0

\* CrossOver(sma_short, sma_long)[i] for a bar where the line has a value:
\* CrossUp - CrossDown.
CrossOver(c, p, i) ==
    LET before == NonZeroDifference(c, p, i - 1)
        diff   == SmaDiff(c, p, i)
        up     == IF before < 0 /\ diff > 0 THEN 1 ELSE 0
        down   == IF before > 0 /\ diff < 0 THEN 1 ELSE 0
    IN  up - down

\* ----------------------------------------------------------- broker
\* Commission of the run's scheme (percentage of the traded value,
\* stock-like): abs(size) * price * 0.001.
getcommission(size, price) == (Abs(size) * price * CommissionPerMille) \div 1000

\* Position.update(size, price): the position after trading `size` (signed)
\* at `price`, and the parts of `size` that opened and closed.
PositionUpdate(pos, size, price) ==
    IF pos.size + size = 0 THEN
        [size |-> 0, price |-> 0, opened |-> 0, closed |-> size]
    ELSE IF pos.size = 0 THEN
        [size |-> size, price |-> price, opened |-> size, closed |-> 0]
    ELSE IF (pos.size > 0) = (size > 0) THEN            \* adds to it
        [size |-> pos.size + size,
         price |-> (pos.price * pos.size + size * price) \div (pos.size + size),
         opened |-> size, closed |-> 0]
    ELSE IF (pos.size > 0) = (pos.size + size > 0) THEN \* reduces it
        [size |-> pos.size + size, price |-> pos.price,
         opened |-> 0, closed |-> size]
    ELSE                                                \* reverses it
        [size |-> pos.size + size, price |-> price,
         opened |-> pos.size + size, closed |-> -pos.size]

\* Cash after the closed part u.closed of an execution at `price`: the
\* closed size is credited at the price, less its commission.
CashAfterClose(c, u, price) ==
    IF u.closed # 0
    THEN c + (-u.closed) * price - getcommission(u.closed, price) ELSE c

\* The debit of the opened part with its commission left out.
CashAfterOpen_NoCommission(c, u, price) ==
    IF u.opened # 0 THEN c - u.opened * price ELSE c

\* Cash after the opened part u.opened: the opened size is debited at the
\* price, plus its commission.
CashAfterOpen(c, u, price) ==
    IF u.opened # 0
    THEN c - u.opened * price - getcommission(u.opened, price) ELSE c

\* The outcome with the test of the cash left out: the opened part is
\* executed whatever it costs.
MoneyOutcome_NoCashCheck(u, price, c2, pprice) ==
    [cash       |-> c2,
     closed     |-> u.closed,
     closedcomm |-> IF u.closed # 0 THEN getcommission(u.closed, price) ELSE 0,
     popened    |-> u.opened,
     opened     |-> u.opened,
     openedcomm |-> IF u.opened = 0 THEN 0 ELSE getcommission(u.opened, price),
     pprice     |-> pprice]

\* The outcome of the broker's cash arithmetic for a position update u at
\* `price`, c2 being the cash after both parts: an opened part that leaves
\* the cash negative is not executed.
MoneyOutcome(u, price, c2, pprice) ==
    [cash       |-> c2,
     closed     |-> u.closed,
     closedcomm |-> IF u.closed # 0 THEN getcommission(u.closed, price) ELSE 0,
     popened    |-> u.opened,
     opened     |-> IF u.opened # 0 /\ c2 < 0 THEN 0 ELSE u.opened,
     openedcomm |-> IF u.opened = 0 \/ c2 < 0
                    THEN 0 ELSE getcommission(u.opened, price),
     pprice     |-> pprice]

MoneyOf(u, price, c, pprice) ==
    MoneyOutcome(u, price, CashAfterOpen(CashAfterClose(c, u, price), u, price),
                 pprice)

\* The cash arithmetic of BackBroker._execute for order o at `price`
\* against cash c and position pos.
ExecMoney(o, price, c, pos) ==
    MoneyOf(PositionUpdate(pos, o.size, price), price, c, pos.price)

\* order.clone() as queued by broker.notify, with the executed bit (closed
\* and opened size and commission) this notification reports.
Notification(o, closed, closedcomm, opened, openedcomm) ==
    [id |-> o.id, isbuy |-> o.isbuy, status |-> o.status,
     execprice |-> o.execprice, execsize |-> o.execsize,
     execcomm |-> o.execcomm,
     closed |-> closed, closedcomm |-> closedcomm,
     opened |-> opened, openedcomm |-> openedcomm]

PlainNotification(o) == Notification(o, 0, 0, 0, 0)

NewTrade == [size |-> 0, price |-> 0, commission |-> 0, pnl |-> 0,
             pnlcomm |-> 0, isclosed |-> FALSE, justopened |-> FALSE,
             exitprice |-> 0, entrysize |-> 0]

\* Trade.update when the size grows: the entry price is averaged in.
TradeGrow(t, size, price, commission) ==
    [t EXCEPT !.size = t.size + size,
              !.price = (t.size * t.price + size * price) \div (t.size + size),
              !.commission = t.commission + commission,
              !.pnlcomm = t.pnl - (t.commission + commission),
              !.isclosed = FALSE,
              !.justopened = (t.size = 0),
              !.entrysize = t.size + size]

\* Trade.update when the size shrinks: profit and loss is realised.
TradeShrink(t, size, price, commission) ==
    [t EXCEPT !.size = t.size + size,
              !.commission = t.commission + commission,
              !.pnl = t.pnl + (-size) * (price - t.price),
              !.pnlcomm = t.pnl + (-size) * (price - t.price)
                            - (t.commission + commission),
              !.isclosed = (t.size + size = 0),
              !.justopened = FALSE,
              !.exitprice = price]

TradeUpdate(t, size, price, commission) ==
    IF size = 0 THEN t
    ELSE IF Abs(t.size + size) > Abs(t.size)
    THEN TradeGrow(t, size, price, commission)
    ELSE TradeShrink(t, size, price, commission)

\* Strategy._addnotification, in three steps.  b is the record of the
\* broker's and the strategy's bookkeeping.
\* The list of trades starts with a fresh trade.
EnsureTrade(b) ==
    IF b.trades = <<>> THEN [b EXCEPT !.trades = <<NewTrade>>] ELSE b

\* The current trade becomes t; it is queued for notify_trade if `queue`.
PutTrade(b, t, queue) ==
    [b EXCEPT !.trades[Len(b.trades)] = t,
              !.tradespending = IF queue THEN Append(@, t) ELSE @]

QueueIfClosed(b, t) == PutTrade(b, t, t.isclosed)
QueueIfOpened(b, t) == PutTrade(b, t, t.justopened)

\* The closed part of the fill updates the current trade.
TradeClosedPart(b, n) ==
    IF n.closed = 0 THEN b
    ELSE QueueIfClosed(b, TradeUpdate(b.trades[Len(b.trades)], n.closed,
                                      n.execprice, n.closedcomm))

\* The opened part starts a new trade if the current one is closed.
FreshTrade(b) ==
    IF b.trades[Len(b.trades)].isclosed
    THEN [b EXCEPT !.trades = Append(@, NewTrade)] ELSE b

TradeOpenedOn(b, n) ==
    QueueIfOpened(b, TradeUpdate(b.trades[Len(b.trades)], n.opened,
                                 n.execprice, n.openedcomm))

TradeOpenedPart(b, n) ==
    IF n.opened = 0 THEN b ELSE TradeOpenedOn(FreshTrade(b), n)

AddTrades(b, n) ==
    IF n.closed = 0 /\ n.opened = 0 THEN b
    ELSE TradeOpenedPart(TradeClosedPart(EnsureTrade(b), n), n)

\* broker.notify(order) followed by the strategy's _addnotification.
Notify(b, n) == AddTrades([b EXCEPT !.notifs = Append(@, n)], n)

\* order.execute: the order as executed for execsize at price.
Executed(o, m, price, bar) ==
    [o EXCEPT !.status = IF m.closed + m.opened = o.size
                         THEN "Completed" ELSE "Partial",
              !.execprice = price, !.execsize = m.closed + m.opened,
              !.execcomm = m.closedcomm + m.openedcomm, !.execbar = bar]

PositionOf(u) == [size |-> u.size, price |-> u.price]

\* The executed part, if any, updates cash and position and is notified.
Fill(b, oid, price, bar, m) ==
    IF m.closed + m.opened = 0 THEN b
    ELSE Notify([b EXCEPT !.cash = m.cash,
                          !.position = PositionOf(PositionUpdate(
                                           b.position, m.closed + m.opened,
                                           price)),
                          !.orders[oid] = Executed(@, m, price, bar)],
                Notification(Executed(b.orders[oid], m, price, bar),
                             m.closed, m.closedcomm, m.opened, m.openedcomm))

\* An opened part that was not executed for lack of cash: order.margin().
MarginIfUnopened(b, oid, bar, m) ==
    IF m.popened # 0 /\ m.opened = 0
    THEN Notify([b EXCEPT !.orders[oid].status = "Margin",
                          !.orders[oid].execbar = bar],
                PlainNotification([b.orders[oid] EXCEPT !.status = "Margin"]))
    ELSE b

\* The execution at the close the order was created at, not at `price`.
Execute_AtCreatedClose(b, oid, price, bar) ==
    MarginIfUnopened(
        Fill(b, oid, b.orders[oid].createdprice, bar,
             ExecMoney(b.orders[oid], b.orders[oid].createdprice, b.cash,
                       b.position)),
        oid, bar,
        ExecMoney(b.orders[oid], b.orders[oid].createdprice, b.cash,
                  b.position))

\* BackBroker._execute with ago = 0: the real execution of order oid at
\* `price` on bar `bar`.
ExecuteWith(b, oid, price, bar, m) ==
    MarginIfUnopened(Fill(b, oid, price, bar, m), oid, bar, m)

Execute(b, oid, price, bar) ==
    ExecuteWith(b, oid, price, bar,
                ExecMoney(b.orders[oid], price, b.cash, b.position))

\* BackBroker.check_submitted: each submitted order is pseudo-executed at
\* the price it was created at, on the cash and a copy of the position as
\* the orders before it left them; it is accepted if the cash left is not
\* negative, and rejected (Margin) otherwise.
AcceptOrReject(b, oid, m) ==
    IF m.cash >= 0
    THEN Notify([b EXCEPT !.orders[oid].status = "Accepted",
                          !.pending = Append(@, oid)],
                PlainNotification([b.orders[oid] EXCEPT !.status = "Accepted"]))
    ELSE Notify([b EXCEPT !.orders[oid].status = "Margin"],
                PlainNotification([b.orders[oid] EXCEPT !.status = "Margin"]))

RECURSIVE CheckSubmitted(_, _, _, _)
CheckOne(b, ids, pos, o, m) ==
    CheckSubmitted(AcceptOrReject(b, o.id, m), Tail(ids), m.cash,
                   PositionOf(PositionUpdate(pos, m.closed + m.opened,
                                             o.createdprice)))

CheckSubmitted(b, ids, c, pos) ==
    IF ids = <<>> THEN b
    ELSE CheckOne(b, ids, pos, b.orders[Head(ids)],
                  ExecMoney(b.orders[Head(ids)],
                            b.orders[Head(ids)].createdprice, c, pos))

Alive(o) == o.status \in {"Submitted", "Accepted", "Partial"}

\* The pass of BackBroker.next over the pending queue: a market order is
\* executed at the open of the current bar; an order still alive is queued
\* again.
Requeue(b, oid) ==
    IF Alive(b.orders[oid]) THEN [b EXCEPT !.pending = Append(@, oid)] ELSE b

RECURSIVE TryExec(_, _, _, _)
TryExec(b, ids, popen, bar) ==
    IF ids = <<>> THEN b
    ELSE TryExec(Requeue(Execute(b, Head(ids), popen, bar), Head(ids)),
                 Tail(ids), popen, bar)

ExecPending(b, popen, bar) ==
    TryExec([b EXCEPT !.pending = <<>>], b.pending, popen, bar)

\* BackBroker.next on a bar with open popen.
BrokerNext(b, subm, popen, bar) ==
    ExecPending(CheckSubmitted(b, subm, b.cash, b.position), popen, bar)

\* broker.getvalue(): cash plus the position at the current close.
GetValue(c, pos, close) == c + pos.size * close

\* --------------------------------------------------------- strategy
\* What the strategy's methods read and write, as one record.
StrategyState ==
    [closes |-> closes, params |-> params, position |-> position,
     cash |-> cash, orders |-> orders, submitted |-> submitted,
     notifs |-> notifs, order |-> order, buyprice |-> buyprice,
     buycomm |-> buycomm, log |-> log]

\* log(txt): prints when params.printlog, dated with the current bar.
\* txt is the kind of line (buy_signal, buy_executed, sell_signal,
\* sell_executed, order_canceled_rejected, trade_closed) and the numbers
\* formatted into it.
Log(s, txt, args) ==
    IF printlog
    THEN [s EXCEPT !.log = Append(@, [dt |-> Len(s.closes), txt |-> txt,
                                      args |-> args])]
    ELSE s

\* broker.buy / broker.sell: a market order created at the current close,
\* submitted and notified.  size is signed (negative for a sell).
Submit(s, isbuy, size) ==
    LET id == Len(s.orders) + 1
        o  == [id |-> id, isbuy |-> isbuy, size |-> size,
               created |-> Len(s.closes),
               createdprice |-> s.closes[Len(s.closes)],
               status |-> "Submitted",
               execprice |-> 0, execsize |-> 0, execcomm |-> 0, execbar |-> 0]
    IN  [s EXCEPT !.orders = Append(@, o),
                  !.submitted = Append(@, id),
                  !.notifs = Append(@, PlainNotification(o)),
                  !.order = Some(id)]

\* self.order = self.buy(size=size): no order, and None, when size is 0.
Buy(s, size) ==
    IF size # 0 THEN Submit(s, TRUE, Abs(size)) ELSE [s EXCEPT !.order = None]

\* self.order = self.sell(size=size)
Sell(s, size) ==
    IF size # 0 THEN Submit(s, FALSE, -Abs(size)) ELSE [s EXCEPT !.order = None]

\* The size from all of the cash, the 0.95 forgotten.
BuySize_AllCash(c, close) == IntDiv(c, close)

\* int(self.broker.getcash() * 0.95 / self.dataclose[0])
BuySize(c, close) == IntDiv(c * SizingPercent, 100 * close)

\* next with the sell branch's signal test dropped: sells whenever long.
next_SellWithoutSignal(s) ==
    LET i         == Len(s.closes)
        close     == s.closes[i]
        crossover == CrossOver(s.closes, s.params, i)
    IN  IF s.position.size = 0 THEN
            IF crossover > 0
            THEN Buy(Log(s, "buy_signal", <<close>>), BuySize(s.cash, close))
            ELSE s
        ELSE Sell(Log(s, "sell_signal", <<close>>), s.position.size)

\* next selling one share more than the position holds.
next_SellOneMore(s) ==
    LET i         == Len(s.closes)
        close     == s.closes[i]
        crossover == CrossOver(s.closes, s.params, i)
    IN  IF s.position.size = 0 THEN
            IF crossover > 0
            THEN Buy(Log(s, "buy_signal", <<close>>), BuySize(s.cash, close))
            ELSE s
        ELSE
            IF crossover < 0
            THEN Sell(Log(s, "sell_signal", <<close>>), s.position.size + 1)
            ELSE s

\* MovingAverageCrossStrategy.next
next(s) ==
    LET i         == Len(s.closes)
        close     == s.closes[i]
        crossover == CrossOver(s.closes, s.params, i)
    IN  IF s.position.size = 0 THEN
            IF crossover > 0
            THEN Buy(Log(s, "buy_signal", <<close>>), BuySize(s.cash, close))
            ELSE s
        ELSE
            IF crossover < 0
            THEN Sell(Log(s, "sell_signal", <<close>>), s.position.size)
            ELSE s

\* notify_order without the early return on Submitted and Accepted.
notify_order_NoEarlyReturn(s, n) ==
    LET s1 ==
        IF n.status = "Completed" THEN
            IF n.isbuy
            THEN [Log(s, "buy_executed",
                      <<n.execprice, n.execsize, n.execcomm>>)
                    EXCEPT !.buyprice = Some(n.execprice),
                           !.buycomm = Some(n.execcomm)]
            ELSE Log(s, "sell_executed",
                     <<n.execprice, n.execsize, n.execcomm>>)
        ELSE IF n.status \in {"Canceled", "Margin", "Rejected"}
        THEN Log(s, "order_canceled_rejected", <<>>)
        ELSE s
    IN  [s1 EXCEPT !.order = None]

\* MovingAverageCrossStrategy.notify_order, for notification n
notify_order(s, n) ==
    IF n.status \in {"Submitted", "Accepted"} THEN s
    ELSE
        LET s1 ==
            IF n.status = "Completed" THEN
                IF n.isbuy
                THEN [Log(s, "buy_executed",
                          <<n.execprice, n.execsize, n.execcomm>>)
                        EXCEPT !.buyprice = Some(n.execprice),
                               !.buycomm = Some(n.execcomm)]
                ELSE Log(s, "sell_executed",
                         <<n.execprice, n.execsize, n.execcomm>>)
            ELSE IF n.status \in {"Canceled", "Margin", "Rejected"}
            THEN Log(s, "order_canceled_rejected", <<>>)
            ELSE s
        IN  [s1 EXCEPT !.order = None]

\* notify_trade without the test of trade.isclosed.
notify_trade_Always(s, t) == Log(s, "trade_closed", <<t.pnl, t.pnlcomm>>)

\* MovingAverageCrossStrategy.notify_trade, for trade notification t
notify_trade(s, t) ==
    IF ~t.isclosed THEN s
    ELSE Log(s, "trade_closed", <<t.pnl, t.pnlcomm>>)

\* ------------------------------------------------------------- the run
Init ==
    /\ params \in { [short_period |-> q[1], long_period |-> q[2]] :
                    q \in ParamChoices }
    /\ closes = <<>>
    /\ dataopen = 0
    /\ cash = InitialCash
    /\ value = InitialCash
    /\ position = [size |-> 0, price |-> 0]
    /\ orders = <<>>
    /\ submitted = <<>>
    /\ pending = <<>>
    /\ notifs = <<>>
    /\ trades = <<>>
    /\ tradespending = <<>>
    /\ order = None
    /\ buyprice = None
    /\ buycomm = None
    /\ log = <<>>
    /\ pc = "broker"

\* The engine moves to the next bar and lets the broker work on it: the
\* orders submitted during the previous bar are checked and executed at
\* this bar's open, and their notifications queued for the strategy.
CerebroAdvance ==
    /\ pc = "broker"
    /\ Len(closes) < MaxBars
    /\ \E popen \in Prices, pclose \in Prices :
        LET b0 == [cash |-> cash, position |-> position, orders |-> orders,
                   pending |-> pending, notifs |-> notifs, trades |-> trades,
                   tradespending |-> tradespending]
            b  == BrokerNext(b0, submitted, popen, Len(closes) + 1)
        IN  /\ closes' = Append(closes, pclose)
            /\ dataopen' = popen
            /\ cash' = b.cash
            /\ position' = b.position
            /\ orders' = b.orders
            /\ pending' = b.pending
            /\ notifs' = b.notifs
            /\ trades' = b.trades
            /\ tradespending' = b.tradespending
            /\ submitted' = <<>>
            /\ value' = GetValue(b.cash, b.position, pclose)
    /\ pc' = "notify"
    /\ UNCHANGED << params, order, buyprice, buycomm, log >>

\* The strategy is handed the next queued order notification.
NotifyOrder ==
    /\ pc = "notify"
    /\ notifs # <<>>
    /\ LET s == notify_order(StrategyState, Head(notifs))
       IN  /\ order' = s.order
           /\ buyprice' = s.buyprice
           /\ buycomm' = s.buycomm
           /\ log' = s.log
    /\ notifs' = Tail(notifs)
    /\ UNCHANGED << params, closes, dataopen, cash, value, position, orders,
                    submitted, pending, trades, tradespending, pc >>

\* Then the next queued trade notification.
NotifyTrade ==
    /\ pc = "notify"
    /\ notifs = <<>>
    /\ tradespending # <<>>
    /\ log' = notify_trade(StrategyState, Head(tradespending)).log
    /\ tradespending' = Tail(tradespending)
    /\ UNCHANGED << params, closes, dataopen, cash, value, position, orders,
                    submitted, pending, notifs, trades, order, buyprice,
                    buycomm, pc >>

Notified == pc = "notify" /\ notifs = <<>> /\ tradespending = <<>>

\* Before the minimum period the engine calls prenext, which the strategy
\* does not define.
StrategyPrenext ==
    /\ Notified
    /\ Len(closes) < MinPeriod(params)
    /\ pc' = "broker"
    /\ UNCHANGED << params, closes, dataopen, cash, value, position, orders,
                    submitted, pending, notifs, trades, tradespending, order,
                    buyprice, buycomm, log >>

\* From the minimum period on it calls next.
StrategyNext ==
    /\ Notified
    /\ Len(closes) >= MinPeriod(params)
    /\ LET s == next(StrategyState)
       IN  /\ order' = s.order
           /\ orders' = s.orders
           /\ submitted' = s.submitted
           /\ notifs' = s.notifs
           /\ log' = s.log
           /\ cash' = s.cash
           /\ position' = s.position
           /\ buyprice' = s.buyprice
           /\ buycomm' = s.buycomm
    /\ pc' = "broker"
    /\ UNCHANGED << params, closes, dataopen, value, pending, trades,
                    tradespending >>

\* The data is exhausted: the run ends.
Stop ==
    /\ pc = "broker"
    /\ Len(closes) >= 1
    /\ pc' = "done"
    /\ UNCHANGED << params, closes, dataopen, cash, value, position, orders,
                    submitted, pending, notifs, trades, tradespending, order,
                    buyprice, buycomm, log >>

Next ==
    \/ CerebroAdvance
    \/ NotifyOrder
    \/ NotifyTrade
    \/ StrategyPrenext
    \/ StrategyNext
    \/ Stop

Spec == Init /\ [][Next]_vars

\* ============================================================ claims
Bar == Len(closes)
OrderIds == 1..Len(orders)
Flat == position.size = 0
Signal == CrossOver(closes, params, Bar)
Issued == Len(orders') = Len(orders) + 1
NewOrder == orders'[Len(orders')]
Terminal == {"Completed", "Canceled", "Margin", "Rejected"}

\* --------------------------------------------------------------- C1
\* C1: in every call of next() a buy order is issued only if the position
\* is flat and the crossover is > 0, a sell order only if a position is
\* open and the crossover is < 0; in every other combination (crossover 0,
\* upward cross while long, downward cross while flat) no order is issued;
\* and next() itself never changes position or cash.
C1_OrdersOnlyOnMatchingSignal ==
    [][StrategyNext =>
        /\ orders' = orders \/ Issued
        /\ (Issued /\ NewOrder.isbuy) => (Flat /\ Signal > 0)
        /\ (Issued /\ ~NewOrder.isbuy) => (~Flat /\ Signal < 0)
        /\ (Signal = 0 \/ (Signal > 0 /\ ~Flat) \/ (Signal < 0 /\ Flat))
              => (orders' = orders /\ submitted' = submitted)
        /\ position' = position
        /\ cash' = cash]_vars

\* A downward cross met a flat position after a buy and a sell had gone
\* through, and next() issued nothing on it.
C1_Witness ==
    /\ pc = "broker"
    /\ Bar >= MinPeriod(params)
    /\ Signal < 0
    /\ Flat
    /\ Len(orders) >= 2
    /\ \A k \in OrderIds : orders[k].created < Bar


\* --------------------------------------------------------------- C2
\* C2: the position size is never negative, a buy never adds to an open
\* position (the size grows only from 0) and a sell never takes the size
\* below 0.
C2_LongOnlySinglePosition ==
    /\ [](position.size >= 0)
    /\ [][/\ position'.size > position.size => position.size = 0
          /\ position'.size < position.size => position'.size >= 0]_vars

\* A position was opened, sold and opened again.
C2_Witness ==
    /\ position.size > 0
    /\ \E k \in OrderIds : ~orders[k].isbuy /\ orders[k].status = "Completed"

C4_ResolvedWithinSignalBar ==
    \A k \in OrderIds :
        /\ pc \in {"broker", "done"} => ~Alive(orders[k])
        /\ orders[k].status = "Completed" =>
              /\ orders[k].execbar = orders[k].created
              /\ orders[k].execprice = orders[k].createdprice

\* C4 as amended: an order created by next() on bar i stays pending until
\* the engine moves to bar i+1; there the broker resolves it before the
\* strategy is called: it fills in full at the open of bar i+1 or is
\* rejected.  Whenever next() is about to run, no order is pending, every
\* notification has been delivered and self.order is None.
C4_ResolvedAtNextOpen ==
    /\ \A k \in OrderIds :
        /\ Alive(orders[k]) =>
              /\ orders[k].created = Bar
              /\ pc \in {"broker", "done"}
              /\ orders[k].status = "Submitted"
        /\ ~Alive(orders[k]) =>
              /\ orders[k].status \in {"Completed", "Margin"}
              /\ orders[k].execbar = orders[k].created + 1
        /\ orders[k].status = "Completed" =>
              /\ orders[k].execsize = orders[k].size
              /\ orders[k].execbar = Bar => orders[k].execprice = dataopen
    /\ Notified => order = None /\ submitted = <<>> /\ pending = <<>>

\* A buy was filled at an open different from the close of its signal bar.
C4_Witness ==
    \E k \in OrderIds :
        /\ orders[k].isbuy
        /\ orders[k].status = "Completed"
        /\ orders[k].execprice # orders[k].createdprice

\* --------------------------------------------------------------- C5
\* The orders a step fills.
Filled == { k \in OrderIds : /\ orders[k].status # "Completed"
                             /\ orders'[k].status = "Completed" }

\* C5: a buy fill of size at price takes size*price + commission from the
\* cash and a sell fill adds size*price - commission, the commission being
\* size*price*0.001; no other step changes the cash; and once a bar is
\* delivered the broker's value is cash + position.size * close.
C5_CashAccounting ==
    /\ [](Bar >= 1 => value = cash + position.size * closes[Bar])
    /\ [][/\ Filled = {} => cash' = cash
          /\ \A k \in Filled :
              LET o        == orders'[k]
                  notional == Abs(o.execsize) * o.execprice
              IN  /\ Filled = {k}
                  /\ o.execcomm * 1000 = notional * CommissionPerMille
                  /\ o.isbuy => cash' = cash - (notional + o.execcomm)
                  /\ ~o.isbuy => cash' = cash + (notional - o.execcomm)]_vars

\* A buy and a sell have been filled, each with a commission.
C5_Witness ==
    /\ \E k \in OrderIds : /\ orders[k].isbuy
                           /\ orders[k].status = "Completed"
                           /\ orders[k].execcomm > 0
    /\ \E k \in OrderIds : /\ ~orders[k].isbuy
                           /\ orders[k].status = "Completed"
                           /\ orders[k].execcomm > 0


\* --------------------------------------------------------------- C6
ClosedTrades(ts) == { j \in 1..Len(ts) : ts[j].isclosed }
SellFills(os) == { k \in 1..Len(os) : ~os[k].isbuy /\ os[k].status = "Completed" }
BuyFills(os) == { k \in 1..Len(os) : os[k].isbuy /\ os[k].status = "Completed" }
LogLines(txt) == { j \in 1..Len(log) : log[j].txt = txt }
QueuedClosed == { j \in 1..Len(tradespending) : tradespending[j].isclosed }
RECURSIVE MaxOf(_)
MaxOf(S) == IF S = {} THEN 0
            ELSE LET x == CHOOSE y \in S : TRUE IN Max(x, MaxOf(S \ {x}))

\* C6: every step that takes the position from long to flat sells all of
\* it and closes exactly one trade, whose gross profit is
\* (exit price - entry price) * size and whose net profit is the gross
\* less the commissions of the entry and of the exit fill; there are
\* always as many closed trades as filled sells; and a trade-closed line
\* is logged for closed trades only, one for each whose notification has
\* been delivered.
C6_TradeClosedOnExit ==
    /\ [](/\ Cardinality(ClosedTrades(trades)) = Cardinality(SellFills(orders))
          /\ Cardinality(LogLines("trade_closed")) + Cardinality(QueuedClosed)
                = Cardinality(ClosedTrades(trades)))
    /\ [][position'.size < position.size =>
            LET t     == trades'[Len(trades')]
                exit  == orders'[MaxOf(SellFills(orders'))]
                entry == orders[MaxOf(BuyFills(orders))]
            IN  /\ position.size > 0 /\ position'.size = 0
                /\ Filled = {exit.id}
                /\ -exit.execsize = position.size
                /\ entry.execsize = position.size
                /\ entry.execprice = position.price
                /\ Len(trades') = Len(trades)
                /\ ClosedTrades(trades') = ClosedTrades(trades) \cup {Len(trades)}
                /\ ~trades[Len(trades)].isclosed
                /\ t.isclosed
                /\ t.pnl = (exit.execprice - entry.execprice) * position.size
                /\ t.pnlcomm = t.pnl - entry.execcomm - exit.execcomm]_vars

\* A trade was closed at a loss and its trade-closed line logged, then the
\* next trade was opened.
C6_Witness ==
    /\ \E j \in ClosedTrades(trades) : trades[j].pnl < 0
    /\ LogLines("trade_closed") # {}
    /\ position.size > 0

\* --------------------------------------------------------------- C7
InvalidConfig == params.short_period >= params.long_period

\* C7: a configuration with short_period >= long_period is rejected before
\* any bar is processed: no order is issued, no fill occurs and the cash
\* stays at its initial value.
C7_InvalidConfigRejected ==
    InvalidConfig =>
        /\ orders = <<>>
        /\ position.size = 0
        /\ cash = InitialCash

\* --------------------------------------------------------------- C8
EitherUndefined(i) == i < params.short_period \/ i < params.long_period

\* C8: at every bar where either moving average is undefined the crossover
\* line carries no signal (it has no value there, and next() is not
\* called), so no order is created and no signal logged on such a bar; and
\* the crossover never takes the same non-zero value at two consecutive
\* bars.
C8_NoSignalBeforeDefinedNoRepeat ==
    /\ \A i \in 1..Bar : EitherUndefined(i) =>
          /\ ~HasCrossOver(params, i)
          /\ \A k \in OrderIds : orders[k].created # i
          /\ \A j \in 1..Len(log) : log[j].dt # i
    /\ \A i \in 2..Bar : (HasCrossOver(params, i - 1) /\ HasCrossOver(params, i)) =>
          \/ CrossOver(closes, params, i) = 0
          \/ CrossOver(closes, params, i) # CrossOver(closes, params, i - 1)

\* The short average crossed above the long one and stayed above it on the
\* following bar, where the crossover is back to 0; an order was created on
\* the cross.
C8_Witness ==
    \E i \in 2..Bar :
        /\ HasCrossOver(params, i - 1)
        /\ CrossOver(closes, params, i - 1) = 1
        /\ SmaDiff(closes, params, i) > 0
        /\ CrossOver(closes, params, i) = 0
        /\ \E k \in OrderIds : orders[k].created = i - 1


\* --------------------------------------------------------------- C9
\* An order is outstanding until notify_order has been handed a terminal
\* notification of it.
Outstanding(k) ==
    \/ Alive(orders[k])
    \/ \E j \in 1..Len(notifs) :
          notifs[j].id = k /\ notifs[j].status \in Terminal

\* C9: at most one order is outstanding at any time; next() issues an
\* order only when no earlier order is outstanding; a terminal
\* notification leaves self.order None, and a Submitted or Accepted
\* notification leaves self.order, buyprice and buycomm as they were.
C9_OneOrderAtATime ==
    /\ [](Cardinality({ k \in OrderIds : Outstanding(k) }) <= 1)
    /\ [][/\ (StrategyNext /\ Issued) =>
                \A k \in OrderIds : ~Outstanding(k)
          /\ (NotifyOrder /\ Head(notifs).status \in Terminal) =>
                order' = None
          /\ (NotifyOrder /\ Head(notifs).status \in {"Submitted", "Accepted"}) =>
                /\ order' = order
                /\ buyprice' = buyprice
                /\ buycomm' = buycomm]_vars

\* The Submitted notification of a second buy has been handed over, with
\* self.order still set and the first buy's price and commission kept; the
\* Accepted one is next.
C9_Witness ==
    /\ pc = "notify"
    /\ notifs # <<>>
    /\ Head(notifs).status = "Accepted"
    /\ order = Some(Head(notifs).id)
    /\ Head(notifs).isbuy
    /\ buyprice # None
    /\ buycomm # None

\* -------------------------------------------------------------- C10
\* What a buy of `size` costs at `price`, commission included.
FillCost(size, price) == size * price + getcommission(size, price)

\* The buys the broker tried to fill on the current bar.
TriedNow == { k \in OrderIds : /\ orders[k].isbuy
                               /\ orders[k].execbar = Bar
                               /\ orders[k].status \in {"Completed", "Margin"} }

\* The cash the broker held when it tried order k on the current bar.
CashAtFill(k) ==
    IF orders[k].status = "Completed"
    THEN cash + FillCost(orders[k].size, dataopen) ELSE cash

\* C10 as claimed: cash is never negative, and the size of a buy is such
\* that its cost at the fill price, commission included, never exceeds the
\* cash available when it is filled.
C10_SizingCoversFillPrice ==
    /\ cash >= 0
    /\ \A k \in TriedNow : FillCost(orders[k].size, dataopen) <= CashAtFill(k)

\* C10 as amended: cash is never negative.  The sizing guarantees that the
\* cost of a buy at the close of its signal bar does not exceed the cash;
\* at the fill price, the next bar's open, it may, and then the broker
\* rejects the order (Margin) and the position stays flat: a buy is filled
\* exactly when its cost at that open does not exceed the cash.
C10_CashNeverNegative ==
    /\ cash >= 0
    /\ \A k \in OrderIds : (orders[k].isbuy /\ Alive(orders[k])) =>
          FillCost(orders[k].size, orders[k].createdprice) <= cash
    /\ \A k \in TriedNow :
          /\ orders[k].status = "Completed" <=>
                FillCost(orders[k].size, dataopen) <= CashAtFill(k)
          /\ orders[k].status = "Margin" => Flat

\* A buy was rejected at an open above the close it was sized at.
C10_Witness ==
    \E k \in OrderIds :
        /\ orders[k].isbuy
        /\ orders[k].status = "Margin"
        /\ orders[k].execbar = Bar
        /\ dataopen > orders[k].createdprice

=============================================================================
